---- MODULE Spec2Model ----
(***************************************************************************)
(* Model of 02ZarebaMichal.py: reading an adjacency ("consistency")        *)
(* matrix, building the vertex list, the edge list and the adjacency       *)
(* dictionary, and checking every edge for being a cutting edge by         *)
(* removing it from a deep copy and running BFS.                           *)
(***************************************************************************)
EXTENDS Integers, Sequences, FiniteSets, TLC

\* Bounds of the checked input families.
MaxN == 4
MaxLoops == 1
MaxRows == 2
MaxRowLen == 3
MaxSq == 3
MaxKeys == 3
MaxArcs == 3

VARIABLES pc, file, consistency_matrix, vertices_list, edges_list,
          adjacency_dictionary, heap, dict1, edge_ix, vertice1, vertice2,
          graph, node_v, visited, queue, vertices, printed

vars == <<pc, file, consistency_matrix, vertices_list, edges_list,
          adjacency_dictionary, heap, dict1, edge_ix, vertice1, vertice2,
          graph, node_v, visited, queue, vertices, printed>>

------------------------------------------------------------------------------
\* Helpers on Python lists (sequences).

Range(s) == {s[k] : k \in DOMAIN s}

\* x in list
InList(x, s) == \E k \in DOMAIN s : s[k] = x

\* list.remove(x) on a list that holds x: drops the first element equal to x.
ListRemove(s, x) ==
    LET k == CHOOSE j \in DOMAIN s : s[j] = x /\ \A m \in 1..(j - 1) : s[m] # x
    IN  [m \in 1..(Len(s) - 1) |-> IF m < k THEN s[m] ELSE s[m + 1]]

------------------------------------------------------------------------------
\* Floats as the script uses them: float('inf') or a finite weight.

PosInf == [inf |-> TRUE, val |-> 0]

Tokens == {"-", "1"}

TokenValue(element) == IF element = "1" THEN 1 ELSE 0

\* list_to_float_list: '-' becomes float('inf'), any other token float(token).
list_to_float_list(list) ==
    [k \in 1..Len(list) |->
        IF list[k] = "-" THEN PosInf
        ELSE [inf |-> FALSE, val |-> TokenValue(list[k])]]

\* consistency_matrix_to_list: one row per line, tokens split on whitespace.
consistency_matrix_to_list(lines) ==
    [i \in 1..Len(lines) |-> list_to_float_list(lines[i])]

\* create_vertices_list: 1..len(matrix).
create_vertices_list(matrix) == [i \in 1..Len(matrix) |-> i]

------------------------------------------------------------------------------
\* Edge list.

\* Mutant: remembers the tuple itself instead of its reverse.
remove_duplicates_not_reversed(iterable) ==
    LET F[k \in 0..Len(iterable)] ==
            IF k = 0 THEN [seen |-> {}, out |-> <<>>]
            ELSE LET tup == iterable[k]
                     p == F[k - 1]
                 IN  IF tup \notin p.seen
                     THEN [seen |-> p.seen \cup {tup},
                           out |-> Append(p.out, tup)]
                     ELSE p
    IN  F[Len(iterable)].out

\* Mutant: drops self-referential pairs as well as mirrors.
remove_reversed_duplicates_and_loops(iterable) ==
    LET F[k \in 0..Len(iterable)] ==
            IF k = 0 THEN [seen |-> {}, out |-> <<>>]
            ELSE LET tup == iterable[k]
                     p == F[k - 1]
                 IN  IF tup \notin p.seen /\ tup[1] # tup[2]
                     THEN [seen |-> p.seen \cup {<<tup[2], tup[1]>>},
                           out |-> Append(p.out, tup)]
                     ELSE p
    IN  F[Len(iterable)].out

\* remove_reversed_duplicates: yields an item unless its tuple is in seen,
\* and on yielding adds the reversed tuple to seen.
remove_reversed_duplicates(iterable) ==
    LET F[k \in 0..Len(iterable)] ==
            IF k = 0 THEN [seen |-> {}, out |-> <<>>]
            ELSE LET tup == iterable[k]
                     p == F[k - 1]
                 IN  IF tup \notin p.seen
                     THEN [seen |-> p.seen \cup {<<tup[2], tup[1]>>},
                           out |-> Append(p.out, tup)]
                     ELSE p
    IN  F[Len(iterable)].out

\* The inner loop of create_edges_list over one row (lines 117-122).
RowEdges(weights, i, vlist) ==
    LET F[x \in 0..Len(weights)] ==
            IF x = 0 THEN <<>>
            ELSE IF weights[x] # PosInf
                 THEN Append(F[x - 1], <<vlist[i], vlist[x]>>)
                 ELSE F[x - 1]
    IN  F[Len(weights)]

\* The candidate list of create_edges_list before de-duplication, row-major.
CandidateEdges(matrix, vlist) ==
    LET F[i \in 0..Len(matrix)] ==
            IF i = 0 THEN <<>>
            ELSE F[i - 1] \o RowEdges(matrix[i], i, vlist)
    IN  F[Len(matrix)]

\* vertices_list[x] raises IndexError for a finite entry in a column beyond
\* the vertex list.
EdgesIndexError(matrix, vlist) ==
    \E i \in DOMAIN matrix : \E x \in DOMAIN matrix[i] :
        matrix[i][x] # PosInf /\ x > Len(vlist)

\* Mutant: numbers the endpoints i+1, x+1 itself and so never raises.
create_edges_list_unchecked(matrix, vlist) ==
    LET Row(i) == LET F[x \in 0..Len(matrix[i])] ==
                          IF x = 0 THEN <<>>
                          ELSE IF matrix[i][x] # PosInf
                               THEN Append(F[x - 1], <<i, x>>)
                               ELSE F[x - 1]
                  IN  F[Len(matrix[i])]
        G[i \in 0..Len(matrix)] ==
            IF i = 0 THEN <<>> ELSE G[i - 1] \o Row(i)
    IN  [error |-> FALSE,
         edge_list |-> remove_reversed_duplicates(G[Len(matrix)])]

\* create_edges_list: the outcome is an IndexError or the de-duplicated list.
create_edges_list(matrix, vlist) ==
    IF EdgesIndexError(matrix, vlist)
    THEN [error |-> TRUE, edge_list |-> <<>>]
    ELSE [error |-> FALSE,
          edge_list |-> remove_reversed_duplicates(CandidateEdges(matrix, vlist))]

------------------------------------------------------------------------------
\* Adjacency dictionary.

\* The adjacency list of one row (lines 145-148): the 0-based column x is
\* vertex x+1, which is the 1-based column itself.
AdjacencyList(row) ==
    LET F[x \in 0..Len(row)] ==
            IF x = 0 THEN <<>>
            ELSE IF row[x] # PosInf THEN Append(F[x - 1], x)
                 ELSE F[x - 1]
    IN  F[Len(row)]

\* Mutant: appends x instead of x+1 (the lists number the vertices from 0).
create_adjacency_dictionary_off_by_one(matrix) ==
    [v \in 1..Len(matrix) |->
        LET l == AdjacencyList(matrix[v])
        IN  [k \in 1..Len(l) |-> l[k] - 1]]

\* create_adjacency_dictionary: vertex i+1 -> columns x+1 with a finite entry.
create_adjacency_dictionary(matrix) ==
    [v \in 1..Len(matrix) |-> AdjacencyList(matrix[v])]

------------------------------------------------------------------------------
\* BFS.

\* Lines 168-172.
BfsInit(start) ==
    [visited |-> <<start>>, queue |-> <<start>>, vertices |-> <<>>,
     error |-> FALSE]

\* The for loop of lines 176-179 over the neighbours of s.
VisitNeighbours(neighbours, st) ==
    LET F[k \in 0..Len(neighbours)] ==
            IF k = 0 THEN st
            ELSE LET p == F[k - 1]
                     neighbour == neighbours[k]
                 IN  IF ~InList(neighbour, p.visited)
                     THEN [p EXCEPT !.visited = Append(@, neighbour),
                                    !.queue = Append(@, neighbour)]
                     ELSE p
    IN  F[Len(neighbours)]

\* Mutant: leaves the for loop after the first neighbour it enqueues.
BfsIterFirstNeighbourOnly(g, st) ==
    LET s == Head(st.queue)
        popped == [st EXCEPT !.queue = Tail(@), !.vertices = Append(@, s)]
        fresh == IF s \in DOMAIN g
                 THEN SelectSeq(g[s], LAMBDA n : ~InList(n, st.visited))
                 ELSE <<>>
    IN  IF fresh = <<>> THEN popped
        ELSE [popped EXCEPT !.visited = Append(@, fresh[1]),
                            !.queue = Append(@, fresh[1])]

\* Mutant: appends the popped vertex to the result only when it has
\* neighbours.
BfsIterSkipLeaves(g, st) ==
    LET s == Head(st.queue)
        popped == [st EXCEPT !.queue = Tail(@),
                             !.vertices = IF s \in DOMAIN g /\ g[s] # <<>>
                                          THEN Append(@, s) ELSE @]
    IN  IF s \notin DOMAIN g THEN popped
        ELSE VisitNeighbours(g[s], popped)

\* One iteration of the while loop (lines 174-179); graph[s] on a missing
\* key raises KeyError.
BfsIter(g, st) ==
    LET s == Head(st.queue)
        popped == [st EXCEPT !.queue = Tail(@), !.vertices = Append(@, s)]
    IN  IF s \notin DOMAIN g
        THEN [popped EXCEPT !.error = TRUE]
        ELSE VisitNeighbours(g[s], popped)

RECURSIVE BfsRun(_, _)
\* The while loop of bfs (line 173) run to its end.
BfsRun(g, st) ==
    IF st.queue = <<>> \/ st.error THEN st ELSE BfsRun(g, BfsIter(g, st))

\* bfs(graph, node_v)
bfs(g, start) == BfsRun(g, BfsInit(start))

------------------------------------------------------------------------------
\* Objects: the lists of the dictionaries live in a heap of list objects;
\* a dictionary maps each vertex to the address of its list.

Deref(h, d) == [v \in DOMAIN d |-> h[d[v]]]

\* Mutant: copy.copy / plain assignment, the lists stay shared.
shallowcopy(h, d) == [heap |-> h, dict |-> d]

\* copy.deepcopy of a dictionary of lists: every list is copied to a fresh
\* object.  The dictionary copied owns the addresses 1..base; the lists of
\* the previous copy are garbage by then, so the addresses above base are
\* reused.
deepcopy(h, d) ==
    LET base == Cardinality(DOMAIN d)
    IN  [heap |-> [a \in 1..(2 * base) |->
                      IF a <= base THEN h[a] ELSE h[d[a - base]]],
         dict |-> [v \in DOMAIN d |-> base + v]]

\* Mutant: the removal loop never finds its element.
RemoveEdgeEndNever(h, d, from, to) == h

\* Lines 200-204 and 205-209: remove the first occurrence of `to` from the
\* list dict1[from], if there is one.
RemoveEdgeEnd(h, d, from, to) ==
    IF InList(to, h[d[from]])
    THEN [h EXCEPT ![d[from]] = ListRemove(@, to)]
    ELSE h

------------------------------------------------------------------------------
\* Input families.

\* Files holding a symmetric n x n matrix, n <= MaxN, with at most MaxLoops
\* finite entries on the diagonal.
SymmetricFiles ==
    UNION {
        LET Pairs == {p \in (1..n) \X (1..n) : p[1] < p[2]}
            Loops == {L \in SUBSET (1..n) : Cardinality(L) <= MaxLoops}
        IN  {[i \in 1..n |-> [x \in 1..n |->
                 IF \/ i = x /\ i \in L
                    \/ <<i, x>> \in S
                    \/ <<x, i>> \in S
                 THEN "1" ELSE "-"]] : S \in SUBSET Pairs, L \in Loops}
        : n \in 0..MaxN}

\* Files of at most MaxRows lines of at most MaxRowLen tokens each: square
\* or not, symmetric or not.
RaggedFiles ==
    LET Lines == UNION {[1..k -> Tokens] : k \in 0..MaxRowLen}
    IN  UNION {[1..n -> Lines] : n \in 0..MaxRows}

\* Files holding any n x n matrix, n <= MaxSq.
SquareFiles == UNION {[1..n -> [1..n -> Tokens]] : n \in 0..MaxSq}

\* Adjacency maps over the keys 1..k, k <= MaxKeys, with at most MaxArcs
\* neighbour entries in all, every neighbour a key; a list may repeat a
\* neighbour and may hold its own vertex.
AdjacencyMaps ==
    UNION {
        LET Arcs == UNION {[1..a -> (1..k) \X (1..k)] : a \in 0..MaxArcs}
            Sorted == {s \in Arcs :
                          \A m \in 1..(Len(s) - 1) : s[m][1] <= s[m + 1][1]}
        IN  {[v \in 1..k |->
                 LET mine == SelectSeq(s, LAMBDA arc : arc[1] = v)
                 IN  [m \in 1..Len(mine) |-> mine[m][2]]] : s \in Sorted}
        : k \in 1..MaxKeys}

------------------------------------------------------------------------------
\* The script (lines 217-222) as a state machine.

Fresh ==
    /\ consistency_matrix = <<>>
    /\ vertices_list = <<>>
    /\ edges_list = <<>>
    /\ adjacency_dictionary = <<>>
    /\ heap = <<>>
    /\ dict1 = <<>>
    /\ edge_ix = 0
    /\ vertice1 = 0
    /\ vertice2 = 0
    /\ visited = <<>>
    /\ queue = <<>>
    /\ vertices = <<>>
    /\ printed = <<>>

Init ==
    /\ file \in SymmetricFiles
    /\ pc = "read"
    /\ graph = <<>>
    /\ node_v = 0
    /\ Fresh

InitAny ==
    /\ file \in RaggedFiles
    /\ pc = "read"
    /\ graph = <<>>
    /\ node_v = 0
    /\ Fresh

InitSquare ==
    /\ file \in SquareFiles
    /\ pc = "read"
    /\ graph = <<>>
    /\ node_v = 0
    /\ Fresh

InitBfs ==
    /\ file = <<>>
    /\ pc = "bfs_call"
    /\ graph \in AdjacencyMaps
    /\ node_v \in DOMAIN graph
    /\ Fresh

\* Line 218.
ReadFile ==
    /\ pc = "read"
    /\ consistency_matrix' = consistency_matrix_to_list(file)
    /\ pc' = "vertices"
    /\ UNCHANGED <<file, vertices_list, edges_list, adjacency_dictionary, heap,
                   dict1, edge_ix, vertice1, vertice2, graph, node_v, visited,
                   queue, vertices, printed>>

\* Line 219.
CreateVertices ==
    /\ pc = "vertices"
    /\ vertices_list' = create_vertices_list(consistency_matrix)
    /\ pc' = "edges"
    /\ UNCHANGED <<file, consistency_matrix, edges_list, adjacency_dictionary,
                   heap, dict1, edge_ix, vertice1, vertice2, graph, node_v,
                   visited, queue, vertices, printed>>

\* Line 220; an IndexError ends the script.
CreateEdges ==
    /\ pc = "edges"
    /\ LET r == create_edges_list(consistency_matrix, vertices_list)
       IN  IF r.error
           THEN pc' = "IndexError" /\ UNCHANGED edges_list
           ELSE pc' = "adjacency" /\ edges_list' = r.edge_list
    /\ UNCHANGED <<file, consistency_matrix, vertices_list,
                   adjacency_dictionary, heap, dict1, edge_ix, vertice1,
                   vertice2, graph, node_v, visited, queue, vertices, printed>>

\* Line 221, and the entry into check_if_cutting_edge (line 222, 196): the
\* lists of the dictionary are allocated at the addresses 1..N.
CreateAdjacency ==
    /\ pc = "adjacency"
    /\ LET adj == create_adjacency_dictionary(consistency_matrix)
       IN  /\ heap' = [a \in 1..Cardinality(DOMAIN adj) |-> adj[a]]
           /\ adjacency_dictionary' = [v \in DOMAIN adj |-> v]
    /\ edge_ix' = 1
    /\ pc' = IF edges_list = <<>> THEN "done" ELSE "copy"
    /\ UNCHANGED <<file, consistency_matrix, vertices_list, edges_list, dict1,
                   vertice1, vertice2, graph, node_v, visited, queue, vertices,
                   printed>>

\* Lines 197-199.
CopyDict ==
    /\ pc = "copy"
    /\ LET c == deepcopy(heap, adjacency_dictionary)
       IN  heap' = c.heap /\ dict1' = c.dict
    /\ vertice1' = edges_list[edge_ix][1]
    /\ vertice2' = edges_list[edge_ix][2]
    /\ pc' = "remove1"
    /\ UNCHANGED <<file, consistency_matrix, vertices_list, edges_list,
                   adjacency_dictionary, edge_ix, graph, node_v, visited,
                   queue, vertices, printed>>

\* Lines 200-204; dict1[vertice1] on a missing key raises KeyError.
RemoveForward ==
    /\ pc = "remove1"
    /\ IF vertice1 \notin DOMAIN dict1
       THEN pc' = "KeyError" /\ UNCHANGED heap
       ELSE /\ heap' = RemoveEdgeEnd(heap, dict1, vertice1, vertice2)
            /\ pc' = "remove2"
    /\ UNCHANGED <<file, consistency_matrix, vertices_list, edges_list,
                   adjacency_dictionary, dict1, edge_ix, vertice1, vertice2,
                   graph, node_v, visited, queue, vertices, printed>>

\* Lines 205-209.
RemoveBackward ==
    /\ pc = "remove2"
    /\ IF vertice2 \notin DOMAIN dict1
       THEN pc' = "KeyError" /\ UNCHANGED heap
       ELSE /\ heap' = RemoveEdgeEnd(heap, dict1, vertice2, vertice1)
            /\ pc' = "classify"
    /\ UNCHANGED <<file, consistency_matrix, vertices_list, edges_list,
                   adjacency_dictionary, dict1, edge_ix, vertice1, vertice2,
                   graph, node_v, visited, queue, vertices, printed>>

\* Lines 210-214 and the step of the for loop of line 196.
Classify ==
    /\ pc = "classify"
    /\ graph' = Deref(heap, dict1)
    /\ node_v' = edges_list[edge_ix][1]
    /\ LET r == bfs(graph', node_v')
       IN  /\ visited' = r.visited
           /\ queue' = r.queue
           /\ vertices' = r.vertices
           /\ IF r.error
              THEN pc' = "KeyError" /\ UNCHANGED <<printed, edge_ix>>
              ELSE /\ printed' = Append(printed,
                          <<vertice1, vertice2,
                            IF InList(vertice2, r.vertices)
                            THEN "NIE" ELSE "TAK">>)
                   /\ edge_ix' = edge_ix + 1
                   /\ pc' = IF edge_ix < Len(edges_list)
                            THEN "copy" ELSE "done"
    /\ UNCHANGED <<file, consistency_matrix, vertices_list, edges_list,
                   adjacency_dictionary, heap, dict1, vertice1, vertice2>>

\* bfs run on its own, one iteration of its while loop at a time.

\* Lines 168-172.
BfsCall ==
    /\ pc = "bfs_call"
    /\ LET st == BfsInit(node_v)
       IN  visited' = st.visited /\ queue' = st.queue /\ vertices' = st.vertices
    /\ pc' = "bfs_loop"
    /\ UNCHANGED <<file, consistency_matrix, vertices_list, edges_list,
                   adjacency_dictionary, heap, dict1, edge_ix, vertice1,
                   vertice2, graph, node_v, printed>>

\* Lines 173-179, one iteration.
BfsLoop ==
    /\ pc = "bfs_loop"
    /\ queue # <<>>
    /\ LET st == BfsIter(graph, [visited |-> visited, queue |-> queue,
                                 vertices |-> vertices, error |-> FALSE])
       IN  /\ visited' = st.visited
           /\ queue' = st.queue
           /\ vertices' = st.vertices
           /\ pc' = IF st.error THEN "KeyError" ELSE "bfs_loop"
    /\ UNCHANGED <<file, consistency_matrix, vertices_list, edges_list,
                   adjacency_dictionary, heap, dict1, edge_ix, vertice1,
                   vertice2, graph, node_v, printed>>

\* Line 173 with the queue empty, and line 180.
BfsReturn ==
    /\ pc = "bfs_loop"
    /\ queue = <<>>
    /\ pc' = "bfs_returned"
    /\ UNCHANGED <<file, consistency_matrix, vertices_list, edges_list,
                   adjacency_dictionary, heap, dict1, edge_ix, vertice1,
                   vertice2, graph, node_v, visited, queue, vertices, printed>>

Next ==
    \/ ReadFile
    \/ CreateVertices
    \/ CreateEdges
    \/ CreateAdjacency
    \/ CopyDict
    \/ RemoveForward
    \/ RemoveBackward
    \/ Classify

NextBuild ==
    \/ ReadFile
    \/ CreateVertices
    \/ CreateEdges

NextBfs ==
    \/ BfsCall
    \/ BfsLoop
    \/ BfsReturn

\* The script on symmetric matrices.
Spec == Init /\ [][Next]_vars

\* The script on any file, square or not.
SpecAny == InitAny /\ [][Next]_vars

\* The building of the edge list on any square matrix.
SpecSquare == InitSquare /\ [][NextBuild]_vars

\* bfs on any adjacency map; the interpreter keeps running the loop.
SpecBfs == InitBfs /\ [][NextBfs]_vars /\ WF_vars(NextBfs)

------------------------------------------------------------------------------
\* Graph notions the properties are stated in, defined on the matrix and on
\* arcs, independently of the script's own traversal.

\* The matrix has a finite entry at row u, column v (1-indexed).
FiniteAt(u, v) ==
    /\ u \in DOMAIN consistency_matrix
    /\ v \in DOMAIN consistency_matrix[u]
    /\ consistency_matrix[u][v] # PosInf

Dim == Len(consistency_matrix)

\* The vertices reachable from s along the arcs (pairs) of `arcs`.
ReachableAlong(arcs, s) ==
    LET R[n \in 0..Cardinality(arcs)] ==
            IF n = 0 THEN {s}
            ELSE LET prev == R[n - 1]
                 IN  prev \cup {a[2] : a \in {b \in arcs : b[1] \in prev}}
    IN  R[Cardinality(arcs)]

\* The arcs of an adjacency map.
ArcsOf(g) == UNION {{<<u, g[u][k]>> : k \in DOMAIN g[u]} : u \in DOMAIN g}

MatrixArcs == {a \in (1..Dim) \X (1..Dim) : FiniteAt(a[1], a[2])}

CheckerPcs == {"copy", "remove1", "remove2", "classify", "done"}

EdgesBuiltPcs == {"adjacency"} \cup CheckerPcs

\* The lines printed so far are the lines of the first edges of the list.
PrintedFollowsEdges ==
    /\ Len(printed) <= Len(edges_list)
    /\ \A k \in DOMAIN printed :
          printed[k][1] = edges_list[k][1] /\ printed[k][2] = edges_list[k][2]
    /\ pc = "done" => Len(printed) = Len(edges_list)

PathFile == << <<"-", "1", "-">>, <<"1", "-", "1">>, <<"-", "1", "-">> >>

TriangleFile == << <<"-", "1", "1">>, <<"1", "-", "1">>, <<"1", "1", "-">> >>

Cycle4File == << <<"-", "1", "-", "1">>, <<"1", "-", "1", "-">>,
                 <<"-", "1", "-", "1">>, <<"1", "-", "1", "-">> >>

\* C1: on a symmetric matrix, every edge (u,v), u # v, of the edge list is
\* printed TAK exactly when v is not reachable from u once the arcs (u,v)
\* and (v,u) are taken out of the graph of the matrix; every edge is
\* printed by the end; the edges of the path 1-2-3 are all TAK and those of
\* the triangle and of the 4-cycle all NIE.
C1_BridgeIffUnreachable ==
    /\ PrintedFollowsEdges
    /\ \A k \in DOMAIN printed :
          LET u == printed[k][1]
              v == printed[k][2]
          IN  u # v =>
                 (printed[k][3] = "TAK"
                    <=> v \notin ReachableAlong(
                                    MatrixArcs \ {<<u, v>>, <<v, u>>}, u))
    /\ (pc = "done" /\ file = PathFile)
          => printed = << <<1, 2, "TAK">>, <<2, 3, "TAK">> >>
    /\ (pc = "done" /\ file = TriangleFile)
          => printed = << <<1, 2, "NIE">>, <<1, 3, "NIE">>, <<2, 3, "NIE">> >>
    /\ (pc = "done" /\ file = Cycle4File)
          => printed = << <<1, 2, "NIE">>, <<1, 4, "NIE">>, <<2, 3, "NIE">>,
                          <<3, 4, "NIE">> >>

\* A run that printed a bridge and a non-bridge, neither a self-loop.
C1_Witness ==
    /\ pc = "done"
    /\ \E k \in DOMAIN printed :
          printed[k][1] # printed[k][2] /\ printed[k][3] = "TAK"
    /\ \E k \in DOMAIN printed :
          printed[k][1] # printed[k][2] /\ printed[k][3] = "NIE"

\* C2: from the start of check_if_cutting_edge to its end the dictionary
\* passed in holds, for every vertex, the neighbour list built from the
\* matrix; the copy shares no list with it, and each edge's removals start
\* from a copy equal to it.
C2_SharedMapNeverMutated ==
    pc \in CheckerPcs =>
        /\ Deref(heap, adjacency_dictionary)
             = [v \in 1..Dim |-> AdjacencyList(consistency_matrix[v])]
        /\ pc # "copy" =>
             {dict1[v] : v \in DOMAIN dict1}
               \cap {adjacency_dictionary[v] : v \in DOMAIN adjacency_dictionary}
               = {}
        /\ pc = "remove1" =>
             Deref(heap, dict1) = Deref(heap, adjacency_dictionary)

\* A later edge is being checked, and its copy has lost neighbours.
C2_Witness ==
    /\ pc = "classify"
    /\ edge_ix > 1
    /\ Deref(heap, dict1) # Deref(heap, adjacency_dictionary)

\* C3: once the edge list of a square matrix is built, for distinct u, v
\* with a finite entry at (u,v) or (v,u) exactly one of <<u,v>>, <<v,u>> is
\* in the list, once, and it is the one met first in row-major order; with
\* neither entry finite neither is in the list.
C3_MirrorsRemoved ==
    pc = "adjacency" =>
        \A u, v \in 1..Dim :
            u # v =>
                LET at == {k \in DOMAIN edges_list :
                              edges_list[k] \in {<<u, v>>, <<v, u>>}}
                IN  IF FiniteAt(u, v) \/ FiniteAt(v, u)
                    THEN /\ Cardinality(at) = 1
                         /\ \A k \in at :
                              LET a == edges_list[k][1]
                                  b == edges_list[k][2]
                              IN  /\ FiniteAt(a, b)
                                  /\ FiniteAt(b, a) => a < b
                    ELSE at = {}

\* An asymmetric matrix: one pair kept as <<2,1>> because only that entry is
\* finite, another pair finite both ways.
C3_Witness ==
    /\ pc = "adjacency"
    /\ InList(<<2, 1>>, edges_list)
    /\ \E u, v \in 1..Dim : u < v /\ FiniteAt(u, v) /\ FiniteAt(v, u)

\* C5: on a symmetric matrix, the neighbour set of every vertex in the
\* adjacency dictionary is the set of vertices it shares an edge of the
\* edge list with.
C5_AdjacencyAgreesWithEdges ==
    pc \in CheckerPcs =>
        \A v \in 1..Dim :
            Range(heap[adjacency_dictionary[v]])
              = {w \in 1..Dim : InList(<<v, w>>, edges_list)
                                  \/ InList(<<w, v>>, edges_list)}

\* A matrix with a self-loop and at least three edges.
C5_Witness ==
    /\ pc \in CheckerPcs
    /\ Len(edges_list) >= 3
    /\ \E k \in DOMAIN edges_list : edges_list[k][1] = edges_list[k][2]

\* The file is not a square matrix.
NotSquare == \E i \in DOMAIN file : Len(file[i]) # Len(file)

\* C8: a file that is not a square matrix never gets as far as the check of
\* the edges, and nothing is printed for it.
C8_NonSquareRejected ==
    NotSquare => (pc \notin CheckerPcs /\ printed = <<>>)

\* C9: once the edge list is built, whatever the shape of the matrix, both
\* endpoints of every edge and every neighbour in every list are keys of
\* the adjacency dictionary, and no lookup raises KeyError.
C9_NoMissingVertex ==
    /\ pc # "KeyError"
    /\ pc \in CheckerPcs =>
          /\ \A k \in DOMAIN edges_list :
                /\ edges_list[k][1] \in DOMAIN adjacency_dictionary
                /\ edges_list[k][2] \in DOMAIN adjacency_dictionary
          /\ \A v \in DOMAIN adjacency_dictionary :
                Range(heap[adjacency_dictionary[v]])
                  \subseteq DOMAIN adjacency_dictionary

\* A file that is not square went through the check of its edges.
C9_Witness ==
    /\ NotSquare
    /\ pc = "done"
    /\ printed # <<>>

\* C10: for a finite diagonal entry at u the edge <<u,u>> is in the edge
\* list exactly once, and every self-loop edge is printed NIE; every edge is
\* printed by the end.
C10_SelfLoopNeverBridge ==
    /\ pc \in EdgesBuiltPcs =>
          \A u \in 1..Dim :
              FiniteAt(u, u) =>
                  Cardinality({k \in DOMAIN edges_list :
                                  edges_list[k] = <<u, u>>}) = 1
    /\ PrintedFollowsEdges
    /\ \A k \in DOMAIN printed :
          printed[k][1] = printed[k][2] => printed[k][3] = "NIE"

\* A self-loop on a vertex that has another edge, a bridge, was classified.
C10_Witness ==
    /\ pc = "done"
    /\ \E k, m \in DOMAIN printed :
          /\ printed[k][1] = printed[k][2]
          /\ printed[m][1] # printed[m][2]
          /\ printed[m][3] = "TAK"
          /\ printed[k][1] \in {printed[m][1], printed[m][2]}

------------------------------------------------------------------------------
\* bfs on its own.

NoDuplicates(s) == \A j, k \in DOMAIN s : s[j] = s[k] => j = k

\* C4: bfs returns, and the list it returns begins with the start vertex,
\* holds no vertex twice and holds exactly the vertices reachable from the
\* start along the neighbour lists.
C4_BfsTerminatesWithReachable ==
    /\ <>(pc = "bfs_returned")
    /\ [](pc = "bfs_returned" =>
             /\ vertices # <<>>
             /\ vertices[1] = node_v
             /\ NoDuplicates(vertices)
             /\ Range(vertices) = ReachableAlong(ArcsOf(graph), node_v))

\* bfs returned on a map in which the start has a self-loop and lies on a
\* cycle, and on a map with a cycle through three vertices.
C4_Witness ==
    /\ pc = "bfs_returned"
    /\ \/ /\ InList(node_v, graph[node_v])
          /\ \E b \in DOMAIN graph :
                b # node_v /\ InList(b, graph[node_v]) /\ InList(node_v, graph[b])
          /\ Len(vertices) = 2
       \/ /\ \E b, c \in DOMAIN graph :
                /\ Cardinality({node_v, b, c}) = 3
                /\ InList(b, graph[node_v])
                /\ InList(c, graph[b])
                /\ InList(node_v, graph[c])
          /\ Len(vertices) = 3

\* The copy check_if_cutting_edge runs bfs on for the edge <<u,v>>: a deep
\* copy of the map g with v removed from u's list and u from v's.
CopyWithoutEdge(g, u, v) ==
    LET h == [a \in 1..Cardinality(DOMAIN g) |-> g[a]]
        d == [w \in DOMAIN g |-> w]
        c == deepcopy(h, d)
        h1 == RemoveEdgeEnd(c.heap, c.dict, u, v)
        h2 == RemoveEdgeEnd(h1, c.dict, v, u)
    IN  Deref(h2, c.dict)

\* C6: whatever pair <<u,v>> is removed from the copy, bfs from the same
\* start on the copy returns only vertices that bfs on the map itself
\* returned.
C6_RemovalNeverAddsReachable ==
    pc = "bfs_returned" =>
        \A u, v \in DOMAIN graph :
            Range(bfs(CopyWithoutEdge(graph, u, v), node_v).vertices)
              \subseteq Range(vertices)

\* Removing an edge that is in the map loses a vertex that was reached.
C6_Witness ==
    /\ pc = "bfs_returned"
    /\ \E u, v \in DOMAIN graph :
          /\ u # v
          /\ InList(v, graph[u])
          /\ Range(bfs(CopyWithoutEdge(graph, u, v), node_v).vertices)
               # Range(vertices)

\* The orderings of a list.
Orderings(l) ==
    {[k \in 1..Len(l) |-> l[p[k]]] : p \in Permutations(1..Len(l))}

\* The maps that differ from g only in the order of the neighbour lists.
Reorderings(g) ==
    LET keys == Cardinality(DOMAIN g)
        R[n \in 0..keys] ==
            IF n = 0 THEN {g}
            ELSE {[h EXCEPT ![n] = o] : h \in R[n - 1], o \in Orderings(g[n])}
    IN  R[keys]

\* C7: bfs from the same start on any reordering of the neighbour lists
\* returns the same set of vertices.
C7_ReachableSetIgnoresOrder ==
    pc = "bfs_returned" =>
        \A g2 \in Reorderings(graph) :
            Range(bfs(g2, node_v).vertices) = Range(vertices)

\* Some reordering of the map makes bfs return its vertices in another
\* order.
C7_Witness ==
    /\ pc = "bfs_returned"
    /\ Len(vertices) >= 3
    /\ \E g2 \in Reorderings(graph) : bfs(g2, node_v).vertices # vertices

====
